---- MODULE Spec2Model ----
(***************************************************************************)
(* Model of examples/echo-stf/main.py: a single-shot handler that reads    *)
(* one JSON document from stdin, dispatches on input.operation, prints one *)
(* JSON envelope to stdout and exits.                                      *)
(*                                                                         *)
(* JSON values are records [t, s, n]: t is the JSON type tag, s the        *)
(* characters of a string, n a number, a boolean (0/1) or the size of an   *)
(* array/object whose elements play no role in the program.  An object     *)
(* the program looks into carries its fields next to t, s, n; a key that   *)
(* is not present holds Absent.  An optional member of a printed document  *)
(* is a sequence of length 0 or 1.                                         *)
(***************************************************************************)
EXTENDS Integers, Sequences, FiniteSets, TLC

\* -------------------------------------------------------------- bounds --
\* longest message string drawn by Init
MaxLen == 2
\* longest message string drawn by InitPair (two invocations per behaviour)
PairMaxLen == 1

Chars == {"a", "B", " "}

\* --------------------------------------------------------- JSON values --
Absent == [t |-> "absent", s |-> <<>>, n |-> 0]
JNull == [t |-> "null", s |-> <<>>, n |-> 0]
JStr(s) == [t |-> "str", s |-> s, n |-> 0]
JNum(n) == [t |-> "num", s |-> <<>>, n |-> n]
JBool(b) == [t |-> "bool", s |-> <<>>, n |-> IF b THEN 1 ELSE 0]
JArr(n) == [t |-> "arr", s |-> <<>>, n |-> n]
JObj(n) == [t |-> "obj", s |-> <<>>, n |-> n]

Strings(k) == UNION {[1..i -> Chars] : i \in 0..k}

ECHO == <<"e", "c", "h", "o">>
UPPERCASE == <<"u", "p", "p", "e", "r", "c", "a", "s", "e">>
LOWERCASE == <<"l", "o", "w", "e", "r", "c", "a", "s", "e">>
DESCRIBE == <<"d", "e", "s", "c", "r", "i", "b", "e">>
REVERSE == <<"r", "e", "v", "e", "r", "s", "e">>
OPERATION == <<"o", "p", "e", "r", "a", "t", "i", "o", "n">>
MESSAGE == <<"m", "e", "s", "s", "a", "g", "e">>

\* the value of input_data.get("input", {}) when the key is absent
EmptyDict == [t |-> "obj", s |-> <<>>, n |-> 0, operation |-> Absent, message |-> Absent]

\* dict.get(key, default)
get(obj, key, default) == IF obj[key].t = "absent" THEN default ELSE obj[key]

\* type(v).__name__
PyType(v) ==
  CASE v.t = "str" -> "str"
    [] v.t = "num" -> "int"
    [] v.t = "bool" -> "bool"
    [] v.t = "null" -> "NoneType"
    [] v.t = "arr" -> "list"
    [] v.t = "obj" -> "dict"

\* str(v), as the f-strings format a value
Str(v) ==
  CASE v.t = "str" -> v.s
    [] v.t = "num" -> IF v.n = 0 THEN <<"0">> ELSE <<"5">>
    [] v.t = "bool" -> IF v.n = 1 THEN <<"T", "r", "u", "e">> ELSE <<"F", "a", "l", "s", "e">>
    [] v.t = "null" -> <<"N", "o", "n", "e">>
    [] v.t = "arr" -> IF v.n = 0 THEN <<"[", "]">> ELSE <<"[", "0", "]">>
    [] v.t = "obj" -> IF v.n = 0 THEN <<"{", "}">> ELSE <<"{", ".", "}">>

\* bool(v): `not message` is ~Truthy(message)
Truthy(v) ==
  CASE v.t = "str" -> v.s # <<>>
    [] v.t = "num" -> v.n # 0
    [] v.t = "bool" -> v.n = 1
    [] v.t = "null" -> FALSE
    [] v.t = "arr" -> v.n > 0
    [] v.t = "obj" -> v.n > 0

\* ------------------------------------------------------ case transforms --
UpperChar(c) == CASE c = "a" -> "A" [] c = "b" -> "B" [] OTHER -> c
LowerChar(c) == CASE c = "A" -> "a" [] c = "B" -> "b" [] OTHER -> c

\* str.upper() / str.lower()
upper(s) == [i \in 1..Len(s) |-> UpperChar(s[i])]
lower(s) == [i \in 1..Len(s) |-> LowerChar(s[i])]

\* ----------------------------------------------------------- exceptions --
NoExc == [cls |-> "none", text |-> "", arg |-> <<>>]
Exc(cls, text, arg) == [cls |-> cls, text |-> text, arg |-> arg]

\* the base class of an exception class
Base(cls) ==
  CASE cls = "JSONDecodeError" -> "ValueError"
    [] cls = "UnicodeDecodeError" -> "ValueError"
    [] cls = "ValueError" -> "Exception"
    [] cls = "AttributeError" -> "Exception"
    [] OTHER -> "none"

RECURSIVE IsInstance(_, _)
IsInstance(cls, target) ==
  IF cls = "none" THEN FALSE
  ELSE IF cls = target THEN TRUE
  ELSE IsInstance(Base(cls), target)

\* v.<attr> on a value that has no such attribute
AttributeError(v, attr) ==
  Exc("AttributeError", "'" \o PyType(v) \o "' object has no attribute '" \o attr \o "'", <<>>)

\* a logging record written to stderr
Log(level, text, arg) == [level |-> level, text |-> text, arg |-> arg]

\* outcome of a call: the exception raised (or NoExc), the value returned
\* (0 or 1 of them) and the log records written on the way
Return(value, log) == [exc |-> NoExc, value |-> <<value>>, log |-> log]
Raise(e, log) == [exc |-> e, value |-> <<>>, log |-> log]

\* ------------------------------------------------------------ operations --
Result(op, message, data) ==
  [status |-> "success", operation |-> op, message |-> message, data |-> data]

process_echo(message) ==
  Return(Result(ECHO, <<message>>, <<>>),
         <<Log("INFO", "Echo operation: ", Str(message))>>)

process_uppercase_asis(message) ==
  Return(Result(UPPERCASE, <<message>>, <<>>),
         <<Log("INFO", "Uppercase operation: ", Str(message))>>)

process_uppercase(message) ==
  LET log == <<Log("INFO", "Uppercase operation: ", Str(message))>>
  IN  IF message.t # "str" THEN Raise(AttributeError(message, "upper"), log)
      ELSE Return(Result(UPPERCASE, <<JStr(upper(message.s))>>, <<>>), log)

process_lowercase(message) ==
  LET log == <<Log("INFO", "Lowercase operation: ", Str(message))>>
  IN  IF message.t # "str" THEN Raise(AttributeError(message, "lower"), log)
      ELSE Return(Result(LOWERCASE, <<JStr(lower(message.s))>>, <<>>), log)

OperationInfo(description, required) ==
  [description |-> description, required |-> required, optional |-> <<>>]

\* the "data" member returned by process_describe
DescribeData_echo_optional ==
  [input_schema |->
     [type |-> "object",
      properties |->
        [operation |-> [type |-> "string",
                        enum |-> <<ECHO, UPPERCASE, LOWERCASE, DESCRIBE>>,
                        description |-> "The operation to perform"],
         message |-> [type |-> "string",
                      enum |-> <<>>,
                      description |-> "The message to process"]],
      required |-> <<OPERATION>>],
   operations |->
     [op \in {ECHO, UPPERCASE, LOWERCASE, DESCRIBE} |->
        CASE op = ECHO -> OperationInfo("Returns the input message as-is", <<>>)
          [] op = UPPERCASE -> OperationInfo("Converts message to uppercase", <<MESSAGE>>)
          [] op = LOWERCASE -> OperationInfo("Converts message to lowercase", <<MESSAGE>>)
          [] op = DESCRIBE -> OperationInfo("Returns the input schema and available operations", <<>>)]]

DescribeData ==
  [input_schema |->
     [type |-> "object",
      properties |->
        [operation |-> [type |-> "string",
                        enum |-> <<ECHO, UPPERCASE, LOWERCASE, DESCRIBE>>,
                        description |-> "The operation to perform"],
         message |-> [type |-> "string",
                      enum |-> <<>>,
                      description |-> "The message to process"]],
      required |-> <<OPERATION>>],
   operations |->
     [op \in {ECHO, UPPERCASE, LOWERCASE, DESCRIBE} |->
        CASE op = ECHO -> OperationInfo("Returns the input message as-is", <<MESSAGE>>)
          [] op = UPPERCASE -> OperationInfo("Converts message to uppercase", <<MESSAGE>>)
          [] op = LOWERCASE -> OperationInfo("Converts message to lowercase", <<MESSAGE>>)
          [] op = DESCRIBE -> OperationInfo("Returns the input schema and available operations", <<>>)]]

process_describe ==
  Return(Result(DESCRIBE, <<>>, <<DescribeData>>),
         <<Log("INFO", "Describe operation", <<>>)>>)

MessageRequired == Exc("ValueError", "Message is required", <<>>)
UnknownOperation(operation) == Exc("ValueError", "Unknown operation: ", Str(operation))

\* the branches of main() on the operation name once the message is validated
Transform(operation, message) ==
  IF operation = JStr(ECHO) THEN process_echo(message)
  ELSE IF operation = JStr(UPPERCASE) THEN process_uppercase(message)
  ELSE IF operation = JStr(LOWERCASE) THEN process_lowercase(message)
  ELSE Raise(UnknownOperation(operation), <<>>)

\* variants of dispatch with the checks in another order
dispatch_name_first(user_input, operation) ==
  IF operation = JStr(DESCRIBE) THEN process_describe
  ELSE LET message == get(user_input, "message", JStr(<<>>))
       IN  IF operation \notin {JStr(ECHO), JStr(UPPERCASE), JStr(LOWERCASE)}
             THEN Raise(UnknownOperation(operation), <<>>)
           ELSE IF ~Truthy(message) THEN Raise(MessageRequired, <<>>)
           ELSE Transform(operation, message)

dispatch_message_first(user_input, operation) ==
  LET message == get(user_input, "message", JStr(<<>>))
  IN  IF ~Truthy(message) THEN Raise(MessageRequired, <<>>)
      ELSE IF operation = JStr(DESCRIBE) THEN process_describe
      ELSE Transform(operation, message)

dispatch_default_echo(user_input, operation) ==
  IF operation = JStr(DESCRIBE) THEN process_describe
  ELSE LET message == get(user_input, "message", JStr(<<>>))
       IN  IF ~Truthy(message) THEN Raise(MessageRequired, <<>>)
           ELSE IF operation = JStr(UPPERCASE) THEN process_uppercase(message)
           ELSE IF operation = JStr(LOWERCASE) THEN process_lowercase(message)
           ELSE process_echo(message)

\* main(): describe first, then the message check, then the operation name
dispatch(user_input, operation) ==
  IF operation = JStr(DESCRIBE) THEN process_describe
  ELSE LET message == get(user_input, "message", JStr(<<>>))
       IN  IF ~Truthy(message) THEN Raise(MessageRequired, <<>>)
           ELSE Transform(operation, message)

\* ------------------------------------------------------------ documents --
AbsentInput == [t |-> "absent", s |-> <<>>, n |-> 0, operation |-> Absent, message |-> Absent]

\* a JSON value that is not an object, in the place of `input`
InputValue(v) == [t |-> v.t, s |-> v.s, n |-> v.n, operation |-> Absent, message |-> Absent]

InputObject(operation, message) ==
  [t |-> "obj", s |-> <<>>, n |-> 0, operation |-> operation, message |-> message]

\* a top-level JSON value that is not an object
DocValue(v) ==
  [t |-> v.t, s |-> v.s, n |-> v.n,
   workspace_id |-> Absent, stf_id |-> Absent, caller |-> Absent, input |-> AbsentInput]

DocObject(workspace_id, stf_id, caller, input) ==
  [t |-> "obj", s |-> <<>>, n |-> 0,
   workspace_id |-> workspace_id, stf_id |-> stf_id, caller |-> caller, input |-> input]

NoDoc == DocValue(Absent)

\* what stdin holds: kind "json" is a stream json.load parses into doc
Stream(kind, doc) == [kind |-> kind, doc |-> doc]

NonObjects == {JNull, JNum(5), JStr(<<"a">>), JArr(1), JBool(TRUE)}
MetaValues == {Absent, JStr(<<"w">>), JNum(5)}
OpValues == {Absent, JStr(ECHO), JStr(UPPERCASE), JStr(LOWERCASE), JStr(DESCRIBE),
             JStr(REVERSE), JStr(<<>>), JNull, JNum(5)}
NonStrings == {JNull, JNum(0), JNum(5), JBool(FALSE), JBool(TRUE), JArr(0), JArr(1), JObj(0)}
MsgValues(k) == {Absent} \cup {JStr(s) : s \in Strings(k)} \cup NonStrings

Inputs(k) ==
  {AbsentInput} \cup {InputValue(v) : v \in NonObjects}
  \cup {InputObject(o, m) : o \in OpValues, m \in MsgValues(k)}

Docs(k) ==
  {DocValue(v) : v \in NonObjects}
  \cup {DocObject(w, f, c, i) : w \in MetaValues, f \in MetaValues, c \in MetaValues, i \in Inputs(k)}

Streams(k) ==
  {Stream(kind, NoDoc) : kind \in {"empty", "malformed", "undecodable", "intlimit"}}
  \cup {Stream("json", d) : d \in Docs(k)}

\* json.load(sys.stdin).  An empty stream and text that is not JSON raise
\* JSONDecodeError.  Two streams make the read fail with another ValueError:
\* bytes the stream's strict decoder rejects (UnicodeDecodeError, a subclass
\* of ValueError) and a JSON document holding an integer literal longer than
\* the interpreter's limit for int conversion (a plain ValueError).
json_load(stream) ==
  CASE stream.kind = "empty" ->
         Raise(Exc("JSONDecodeError", "Expecting value: line 1 column 1 (char 0)", <<>>), <<>>)
    [] stream.kind = "malformed" ->
         Raise(Exc("JSONDecodeError", "Expecting value", <<>>), <<>>)
    [] stream.kind = "undecodable" ->
         Raise(Exc("UnicodeDecodeError", "'utf-8' codec can't decode byte", <<>>), <<>>)
    [] stream.kind = "intlimit" ->
         Raise(Exc("ValueError", "Exceeds the limit (4300 digits) for integer string conversion", <<>>), <<>>)
    [] stream.kind = "json" -> Return(stream.doc, <<>>)

\* ------------------------------------------------------------- envelopes --
NoResult == Result(<<>>, <<>>, <<>>)
ErrorMsg(prefix, e) == [prefix |-> prefix, text |-> e.text, arg |-> e.arg]

\* {"output": result}
SuccessEnvelope(r) == [output |-> <<r>>, error |-> <<>>, type |-> <<>>]
\* {"error": error_msg, "type": type}
ErrorEnvelope(error_msg, type) == [output |-> <<>>, error |-> <<error_msg>>, type |-> <<type>>]

\* print(json.dumps(doc)): one document on stdout
print(out, doc) == Append(out, doc)

\* sys.exit(code)
sys_exit_zero(code) == <<0>>

sys_exit(code) == <<code>>

\* the except clause of main() that takes exception e: the first that matches
Handler_value_first(e) ==
  IF IsInstance(e.cls, "ValueError") THEN "ValueError"
  ELSE IF IsInstance(e.cls, "JSONDecodeError") THEN "JSONDecodeError"
  ELSE "Exception"

Handler(e) ==
  IF IsInstance(e.cls, "JSONDecodeError") THEN "JSONDecodeError"
  ELSE IF IsInstance(e.cls, "ValueError") THEN "ValueError"
  ELSE "Exception"

\* ----------------------------------------------------------------- state --
VARIABLES pc, stdin, input_data, user_input, operation, result, exc,
          stdout, stderr, exit_code, prev

vars == <<pc, stdin, input_data, user_input, operation, result, exc,
          stdout, stderr, exit_code, prev>>

\* a fresh process about to run main() on stream
Start(stream) ==
  /\ pc = "load"
  /\ stdin = stream
  /\ input_data = NoDoc
  /\ user_input = AbsentInput
  /\ operation = Absent
  /\ result = NoResult
  /\ exc = NoExc
  /\ stdout = <<>>
  /\ stderr = <<>>
  /\ exit_code = <<>>

Init == (\E stream \in Streams(MaxLen) : Start(stream)) /\ prev = <<>>

\* lines 109-110
Load ==
  /\ pc = "load"
  /\ LET r == json_load(stdin)
     IN  /\ stderr' = Append(stderr, Log("INFO", "Reading input from stdin", <<>>))
         /\ IF r.exc # NoExc
              THEN exc' = r.exc /\ pc' = "except" /\ UNCHANGED input_data
              ELSE input_data' = r.value[1] /\ pc' = "log_metadata" /\ UNCHANGED exc
  /\ UNCHANGED <<stdin, user_input, operation, result, stdout, exit_code, prev>>

\* a variant that indexes the metadata instead of using get
LogMetadata_strict ==
  /\ pc = "log_metadata"
  /\ IF input_data.t # "obj"
       THEN exc' = AttributeError(input_data, "get") /\ pc' = "except" /\ UNCHANGED stderr
       ELSE IF input_data.workspace_id.t = "absent"
         THEN exc' = Exc("KeyError", "'workspace_id'", <<>>) /\ pc' = "except" /\ UNCHANGED stderr
         ELSE /\ stderr' = stderr \o
                   <<Log("INFO", "Workspace ID: ", Str(get(input_data, "workspace_id", JNull))),
                     Log("INFO", "STF ID: ", Str(get(input_data, "stf_id", JNull))),
                     Log("INFO", "Caller: ", Str(get(input_data, "caller", JNull)))>>
              /\ pc' = "extract"
              /\ UNCHANGED exc
  /\ UNCHANGED <<stdin, input_data, user_input, operation, result, stdout, exit_code, prev>>

\* lines 113-115
LogMetadata ==
  /\ pc = "log_metadata"
  /\ IF input_data.t # "obj"
       THEN exc' = AttributeError(input_data, "get") /\ pc' = "except" /\ UNCHANGED stderr
       ELSE /\ stderr' = stderr \o
                 <<Log("INFO", "Workspace ID: ", Str(get(input_data, "workspace_id", JNull))),
                   Log("INFO", "STF ID: ", Str(get(input_data, "stf_id", JNull))),
                   Log("INFO", "Caller: ", Str(get(input_data, "caller", JNull)))>>
            /\ pc' = "extract"
            /\ UNCHANGED exc
  /\ UNCHANGED <<stdin, input_data, user_input, operation, result, stdout, exit_code, prev>>

\* lines 118-119
Extract ==
  /\ pc = "extract"
  /\ LET u == get(input_data, "input", EmptyDict)
     IN  /\ user_input' = u
         /\ IF u.t # "obj"
              THEN exc' = AttributeError(u, "get") /\ pc' = "except" /\ UNCHANGED operation
              ELSE operation' = get(u, "operation", JStr(ECHO)) /\ pc' = "dispatch" /\ UNCHANGED exc
  /\ UNCHANGED <<stdin, input_data, result, stdout, stderr, exit_code, prev>>

\* lines 122-138
Dispatch ==
  /\ pc = "dispatch"
  /\ LET r == dispatch(user_input, operation)
     IN  /\ stderr' = stderr \o r.log
         /\ IF r.exc # NoExc
              THEN exc' = r.exc /\ pc' = "except" /\ UNCHANGED result
              ELSE result' = r.value[1] /\ pc' = "output" /\ UNCHANGED exc
  /\ UNCHANGED <<stdin, input_data, user_input, operation, stdout, exit_code, prev>>

\* lines 141-143, then main() returns and the interpreter exits with status 0
Output ==
  /\ pc = "output"
  /\ stdout' = print(stdout, SuccessEnvelope(result))
  /\ stderr' = Append(stderr, Log("INFO", "Processing completed successfully", <<>>))
  /\ exit_code' = <<0>>
  /\ pc' = "done"
  /\ UNCHANGED <<stdin, input_data, user_input, operation, result, exc, prev>>

\* lines 145-152
ExceptJSONDecodeError ==
  /\ pc = "except"
  /\ Handler(exc) = "JSONDecodeError"
  /\ LET error_msg == ErrorMsg("Invalid JSON input: ", exc)
     IN  /\ stderr' = Append(stderr, Log("ERROR", error_msg.prefix \o error_msg.text, error_msg.arg))
         /\ stdout' = print(stdout, ErrorEnvelope(error_msg, "JSONDecodeError"))
  /\ exit_code' = sys_exit(1)
  /\ pc' = "done"
  /\ UNCHANGED <<stdin, input_data, user_input, operation, result, exc, prev>>

\* a variant that logs the error and exits without printing it
ExceptValueError_silent ==
  /\ pc = "except"
  /\ Handler(exc) = "ValueError"
  /\ LET error_msg == ErrorMsg("", exc)
     IN  stderr' = Append(stderr, Log("ERROR", error_msg.prefix \o error_msg.text, error_msg.arg))
  /\ exit_code' = sys_exit(1)
  /\ pc' = "done"
  /\ UNCHANGED <<stdin, input_data, user_input, operation, result, exc, stdout, prev>>

\* lines 154-161
ExceptValueError ==
  /\ pc = "except"
  /\ Handler(exc) = "ValueError"
  /\ LET error_msg == ErrorMsg("", exc)
     IN  /\ stderr' = Append(stderr, Log("ERROR", error_msg.prefix \o error_msg.text, error_msg.arg))
         /\ stdout' = print(stdout, ErrorEnvelope(error_msg, "ValueError"))
  /\ exit_code' = sys_exit(1)
  /\ pc' = "done"
  /\ UNCHANGED <<stdin, input_data, user_input, operation, result, exc, prev>>

\* lines 163-170
ExceptException ==
  /\ pc = "except"
  /\ Handler(exc) = "Exception"
  /\ LET error_msg == ErrorMsg("Unexpected error: ", exc)
     IN  /\ stderr' = Append(stderr, Log("ERROR", error_msg.prefix \o error_msg.text, error_msg.arg))
         /\ stdout' = print(stdout, ErrorEnvelope(error_msg, exc.cls))
  /\ exit_code' = sys_exit(1)
  /\ pc' = "done"
  /\ UNCHANGED <<stdin, input_data, user_input, operation, result, exc, prev>>

Next ==
  \/ Load
  \/ LogMetadata
  \/ Extract
  \/ Dispatch
  \/ Output
  \/ ExceptJSONDecodeError
  \/ ExceptValueError
  \/ ExceptException

Spec == Init /\ [][Next]_vars

\* ------------------------------------------------------ two invocations --
\* The caller runs the program a second time, in a fresh process, on a
\* request with the same `input` value and any metadata; prev keeps what
\* the first process wrote to stdout and its exit code.
InitPair == (\E stream \in Streams(PairMaxLen) : Start(stream)) /\ prev = <<>>

Reinvoke ==
  /\ pc = "done"
  /\ prev = <<>>
  /\ stdin.kind = "json"
  /\ stdin.doc.t = "obj"
  /\ prev' = <<[stdout |-> stdout, exit_code |-> exit_code, stdin |-> stdin]>>
  /\ \E w \in MetaValues, f \in MetaValues, c \in MetaValues :
       stdin' = Stream("json", DocObject(w, f, c, stdin.doc.input))
  /\ pc' = "load"
  /\ input_data' = NoDoc
  /\ user_input' = AbsentInput
  /\ operation' = Absent
  /\ result' = NoResult
  /\ exc' = NoExc
  /\ stdout' = <<>>
  /\ stderr' = <<>>
  /\ exit_code' = <<>>

NextPair == Next \/ Reinvoke

SpecPair == InitPair /\ [][NextPair]_vars

TypeOK ==
  /\ pc \in {"load", "log_metadata", "extract", "dispatch", "output", "except", "done"}
  /\ Len(stdout) <= 1
  /\ Len(exit_code) <= 1

\* ------------------------------------------------------------ properties --
Range(seq) == {seq[i] : i \in 1..Len(seq)}

IsSuccessEnvelope(e) == Len(e.output) = 1 /\ e.error = <<>> /\ e.type = <<>>
IsErrorEnvelope(e) == e.output = <<>> /\ Len(e.error) = 1 /\ Len(e.type) = 1

\* stdin holds a JSON object whose `input` is an object or is absent
IsRequest ==
  /\ stdin.kind = "json"
  /\ stdin.doc.t = "obj"
  /\ stdin.doc.input.t \in {"absent", "obj"}

\* the operation the request asks for, "echo" when it names none
ReqOperation ==
  IF stdin.doc.input.operation.t = "absent" THEN JStr(ECHO) ELSE stdin.doc.input.operation

ReqMessage == stdin.doc.input.message

HasMessage == ReqMessage.t = "str" /\ ReqMessage.s # <<>>
LacksMessage == ReqMessage.t = "absent" \/ ReqMessage = JStr(<<>>)

MessageRequiredEnvelope ==
  [output |-> <<>>,
   error |-> <<[prefix |-> "", text |-> "Message is required", arg |-> <<>>]>>,
   type |-> <<"ValueError">>]

UnknownOperationEnvelope(name) ==
  [output |-> <<>>,
   error |-> <<[prefix |-> "", text |-> "Unknown operation: ", arg |-> name]>>,
   type |-> <<"ValueError">>]

\* C1: when the process has ended exactly one envelope is on stdout, the
\* success envelope or the error envelope; nothing is on stdout before the
\* end, and a process that has not ended can always take its next step.
C1_OneEnvelope ==
  /\ pc = "done" =>
       /\ Len(stdout) = 1
       /\ IsSuccessEnvelope(stdout[1]) # IsErrorEnvelope(stdout[1])
  /\ pc # "done" => stdout = <<>> /\ ENABLED Next

C1_Witness ==
  /\ pc = "done"
  /\ stdin.kind = "json"
  /\ exc = MessageRequired
  /\ Len(stdout) = 1
  /\ IsErrorEnvelope(stdout[1])

\* C2: the exit code is 0 exactly when the envelope on stdout is the success
\* envelope and 1 exactly when it is the error envelope.
C2_ExitCode ==
  pc = "done" =>
    /\ Len(stdout) = 1
    /\ exit_code \in {<<0>>, <<1>>}
    /\ exit_code = <<0>> <=> IsSuccessEnvelope(stdout[1])
    /\ exit_code = <<1>> <=> IsErrorEnvelope(stdout[1])

C2_Witness ==
  /\ pc = "done"
  /\ exc.cls = "AttributeError"
  /\ exit_code = <<1>>
  /\ IsErrorEnvelope(stdout[1])

C4_MessageRequired ==
  (/\ pc = "done"
   /\ IsRequest
   /\ ReqOperation # JStr(DESCRIBE)
   /\ LacksMessage)
  => /\ stdout = <<MessageRequiredEnvelope>>
     /\ exit_code = <<1>>

C4_Witness ==
  /\ pc = "done"
  /\ IsRequest
  /\ ReqOperation = JStr(REVERSE)
  /\ ReqMessage = JStr(<<>>)
  /\ stdout = <<MessageRequiredEnvelope>>

\* C5: a request with a non-empty message for an operation name that is
\* none of echo, uppercase, lowercase, describe ends with the error envelope
\* "Unknown operation: <name>" of type "ValueError" and exit code 1, and no
\* transform has produced a result.
C5_UnknownOperation ==
  (/\ pc = "done"
   /\ IsRequest
   /\ ReqOperation.t = "str"
   /\ ReqOperation.s \notin {ECHO, UPPERCASE, LOWERCASE, DESCRIBE}
   /\ HasMessage)
  => /\ stdout = <<UnknownOperationEnvelope(ReqOperation.s)>>
     /\ exit_code = <<1>>
     /\ result = NoResult

C5_Witness ==
  /\ pc = "done"
  /\ IsRequest
  /\ ReqOperation = JStr(REVERSE)
  /\ HasMessage
  /\ stdout = <<UnknownOperationEnvelope(REVERSE)>>

\* C6: a request for "describe" ends with exit code 0 and the one success
\* envelope carrying the static schema, whatever its message and whatever
\* else the request holds.
C6_Describe ==
  (/\ pc = "done"
   /\ IsRequest
   /\ ReqOperation = JStr(DESCRIBE))
  => /\ exit_code = <<0>>
     /\ stdout = <<[output |-> <<[status |-> "success", operation |-> DESCRIBE,
                                  message |-> <<>>, data |-> <<DescribeData>>]>>,
                    error |-> <<>>, type |-> <<>>]>>

C6_Witness ==
  /\ pc = "done"
  /\ IsRequest
  /\ ReqOperation = JStr(DESCRIBE)
  /\ ReqMessage = Absent
  /\ exit_code = <<0>>

\* the message the transform named op is to return for string s
Expected(op, s) ==
  CASE op = ECHO -> s
    [] op = UPPERCASE -> upper(s)
    [] op = LOWERCASE -> lower(s)

\* C7: a request with a non-empty string message for echo, uppercase or
\* lowercase (echo when no operation is given) ends with exit code 0 and the
\* success envelope naming the operation and carrying the message unchanged,
\* upper-cased or lower-cased.
C7_Transforms ==
  (/\ pc = "done"
   /\ IsRequest
   /\ ReqOperation \in {JStr(ECHO), JStr(UPPERCASE), JStr(LOWERCASE)}
   /\ HasMessage)
  => /\ exit_code = <<0>>
     /\ stdout = <<[output |-> <<[status |-> "success", operation |-> ReqOperation.s,
                                  message |-> <<JStr(Expected(ReqOperation.s, ReqMessage.s))>>,
                                  data |-> <<>>]>>,
                    error |-> <<>>, type |-> <<>>]>>

C7_Witness ==
  /\ pc = "done"
  /\ IsRequest
  /\ ReqOperation = JStr(UPPERCASE)
  /\ ReqMessage = JStr(<<"a", " ">>)
  /\ stdout[1].output[1].message = <<JStr(<<"A", " ">>)>>

\* C8: the names main() dispatches without "Unknown operation" are the enum
\* of the described operation property and the keys of the described
\* operations map, and an operation lists "message" as required exactly
\* when main() rejects it with "Message is required" on a missing message.
C8_Lockstep ==
  LET enum == Range(DescribeData.input_schema.properties.operation.enum)
      operations == DescribeData.operations
  IN  (/\ pc = "done"
       /\ IsRequest
       /\ ReqOperation.t = "str")
      => /\ enum = DOMAIN operations
         /\ (HasMessage \/ ReqOperation = JStr(DESCRIBE)) =>
              (stdout # <<UnknownOperationEnvelope(ReqOperation.s)>>
                 <=> ReqOperation.s \in enum)
         /\ (LacksMessage /\ ReqOperation.s \in DOMAIN operations) =>
              (MESSAGE \in Range(operations[ReqOperation.s].required)
                 <=> stdout = <<MessageRequiredEnvelope>>)

C8_Witness ==
  /\ pc = "done"
  /\ IsRequest
  /\ ReqOperation = JStr(LOWERCASE)
  /\ LacksMessage
  /\ MESSAGE \in Range(DescribeData.operations[LOWERCASE].required)
  /\ stdout = <<MessageRequiredEnvelope>>

\* C9 as stated: every failure that is neither a JSON parse failure nor one
\* of the two validation failures ends with an error envelope whose type is
\* the failure's own class name and whose error is "Unexpected error: "
\* followed by its description, and with exit code 1.
C9_CatchAll ==
  (/\ pc = "done"
   /\ exc # NoExc
   /\ exc.cls # "JSONDecodeError"
   /\ exc # Exc("ValueError", "Message is required", <<>>)
   /\ ~(exc.cls = "ValueError" /\ exc.text = "Unknown operation: "))
  => /\ stdout = <<[output |-> <<>>,
                    error |-> <<[prefix |-> "Unexpected error: ", text |-> exc.text, arg |-> exc.arg]>>,
                    type |-> <<exc.cls>>]>>
     /\ exit_code = <<1>>

\* C10: of two requests with the same `input` value, whatever workspace_id,
\* stf_id and caller each holds, the second ends with the stdout and the
\* exit code of the first.
C10_MetadataIgnored ==
  (pc = "done" /\ prev # <<>>)
  => /\ stdout = prev[1].stdout
     /\ exit_code = prev[1].exit_code

C10_Witness ==
  /\ pc = "done"
  /\ prev # <<>>
  /\ prev[1].stdin.doc.workspace_id # Absent
  /\ stdin.doc.workspace_id = Absent
  /\ prev[1].stdin.doc.caller.t # stdin.doc.caller.t
  /\ stdout = prev[1].stdout

====
